---- MODULE Spec2Model ----
(***************************************************************************)
(* Versioned recipe persistence of prototype.py: the SQLite tables made by *)
(* create_tables, the lookup-or-insert helpers get_or_create_ingredient    *)
(* and get_or_create_tag, and insert_recipe, which writes one revision of  *)
(* a recipe graph and commits.                                             *)
(*                                                                         *)
(* An optional value (Python None / SQL NULL) is the empty tuple, a        *)
(* present value x is the one-element tuple <<x>>.  A table is the         *)
(* sequence of its rows in rowid order.  db is what the open connection    *)
(* sees (committed rows plus the rows of its pending transaction),         *)
(* committed is what the database file holds.  writers is where each of    *)
(* the connections that run the helpers side by side stands.               *)
(***************************************************************************)
EXTENDS Integers, Sequences, FiniteSets, TLC

VARIABLES db, committed, call, failed, writers

vars == <<db, committed, call, failed, writers>>

None == <<>>
Some(x) == <<x>>
Val(o) == o[1]

\* ------------------------------------------------------------------ bounds
\* Most rows, over all six tables, the store may hold when a call is made that
\* adds rows: a write is explored while there is room for its recipes row and
\* one row per list entry.
MaxRows == 4
\* Longest ingredients / instructions / tags list of an explored recipe.
MaxLen == 2
\* Most revisions written in a run in which revisions are also deleted.
MaxRevisions == 2

\* ------------------------------------------------------- pydantic models
\* The enumerations, and for each model class the values explored.
Unit == {"g", "kg", "ml", "l", "dl", "pcs"}

IngredientCategory == {"vegetable", "meat", "fish", "fruit", "spice"}

\* Ingredient(name, category = None)
Ingredient ==
    {[name |-> "Flour", category |-> None],
     [name |-> "Flour", category |-> Some("spice")],
     [name |-> "Milk", category |-> None]}

\* RecipeIngredient(ingredient, quantity, unit)
RecipeIngredient ==
    {[ingredient |-> [name |-> "Flour", category |-> Some("spice")], quantity |-> 200, unit |-> "g"],
     [ingredient |-> [name |-> "Milk", category |-> None], quantity |-> 300, unit |-> "ml"]}

\* Instruction(step_number, description)
Instruction ==
    {[step_number |-> 1, description |-> "Mix"],
     [step_number |-> 2, description |-> "Cook"]}

\* Tag(name, children = None): children is one optional nested Tag.
Tag ==
    {[name |-> "Sweet", children |-> None],
     [name |-> "Easy", children |-> Some([name |-> "Sweet", children |-> None])]}

\* The scalar fields of Recipe as create_mock_recipes sets them for
\* pancakes_v1: comments left unset, the other optional fields set.
RecipeScalars ==
    {[title |-> "Pancakes", description |-> Some("Fluffy breakfast pancakes."),
      comments |-> None, prep_time |-> Some(10), cook_time |-> Some(15),
      servings |-> Some(4)]}

\* list[X | None] of length at most MaxLen
OptList(S) == UNION {[1..n -> {None} \cup {Some(x) : x \in S}] : n \in 0..MaxLen}

\* The number of list entries of a recipe graph.
Entries(recipe) == Len(recipe.ingredients) + Len(recipe.instructions) + Len(recipe.tags)

\* Recipe(title, ..., ingredients, instructions, tags): the graphs explored.
Recipe ==
    {[title |-> s.title, description |-> s.description, comments |-> s.comments,
      prep_time |-> s.prep_time, cook_time |-> s.cook_time, servings |-> s.servings,
      ingredients |-> ing, instructions |-> ins, tags |-> tg] :
        s \in RecipeScalars, ing \in OptList(RecipeIngredient),
        ins \in OptList(Instruction), tg \in OptList(Tag)}

\* The number of None entries of a recipe graph.
NoneEntries(recipe) ==
    Cardinality({i \in 1..Len(recipe.ingredients) : recipe.ingredients[i] = None})
    + Cardinality({i \in 1..Len(recipe.instructions) : recipe.instructions[i] = None})
    + Cardinality({i \in 1..Len(recipe.tags) : recipe.tags[i] = None})

\* The graphs explored, by their number of list entries: those with at most
\* one None entry (insert_recipe stops at the first it meets).
RecipesOfSize ==
    [n \in 0..(3 * MaxLen) |->
        {recipe \in Recipe : Entries(recipe) = n /\ NoneEntries(recipe) <= 1}]

\* ------------------------------------------------------------ the tables
\* create_tables on a new database file: six empty tables.  sqlite_sequence
\* holds, per AUTOINCREMENT table, the largest rowid ever assigned.
EmptyDb ==
    [recipes |-> <<>>, ingredients |-> <<>>, recipe_ingredients |-> <<>>,
     instructions |-> <<>>, tags |-> <<>>, recipe_tags |-> <<>>,
     sqlite_sequence |-> [recipes |-> 0, ingredients |-> 0, instructions |-> 0, tags |-> 0]]

Range(s) == {s[i] : i \in 1..Len(s)}

SetMax(S) == CHOOSE m \in S : \A x \in S : x <= m

\* id INTEGER PRIMARY KEY AUTOINCREMENT: one more than the largest rowid the
\* table has ever held.
NextRowId(d, table) ==
    SetMax({d.sqlite_sequence[table]} \cup {row.id : row \in Range(d[table])}) + 1

\* INSERT INTO <an AUTOINCREMENT table>: the row gets the next rowid.
InsertRow(d, table, row) ==
    [d EXCEPT ![table] = Append(@, row),
              !.sqlite_sequence[table] = NextRowId(d, table)]

\* The INSERT INTO recipes with recipe.cook_time and recipe.prep_time bound in
\* each other's place.
InsertRecipesRowTimesSwapped(d, group_id, version, recipe) ==
    InsertRow(d, "recipes",
        [id |-> NextRowId(d, "recipes"), group_id |-> group_id, version |-> version,
         title |-> recipe.title, description |-> recipe.description,
         comments |-> recipe.comments, prep_time |-> recipe.cook_time,
         cook_time |-> recipe.prep_time, servings |-> recipe.servings])

\* INSERT INTO recipes (group_id, version, title, ...) VALUES (...)
InsertRecipesRow(d, group_id, version, recipe) ==
    InsertRow(d, "recipes",
        [id |-> NextRowId(d, "recipes"), group_id |-> group_id, version |-> version,
         title |-> recipe.title, description |-> recipe.description,
         comments |-> recipe.comments, prep_time |-> recipe.prep_time,
         cook_time |-> recipe.cook_time, servings |-> recipe.servings])

\* insert_recipe without the UPDATE of line 171.
UpdateGroupIdSkipped(d, group_id, id) == d

\* The UPDATE of line 171 without its WHERE clause: every row gets the group.
UpdateGroupIdOfEveryRow(d, group_id, id) ==
    [d EXCEPT !.recipes = [i \in 1..Len(@) |-> [@[i] EXCEPT !.group_id = Some(group_id)]]]

\* UPDATE recipes SET group_id = ? WHERE id = ?
UpdateGroupId(d, group_id, id) ==
    [d EXCEPT !.recipes =
        [i \in 1..Len(@) |-> IF @[i].id = id THEN [@[i] EXCEPT !.group_id = Some(group_id)]
                                               ELSE @[i]]]

\* SELECT MAX(version) FROM recipes WHERE group_id = ?: NULL when no row matches.
SelectMaxVersion(d, group_id) ==
    LET vs == {row.version : row \in {r \in Range(d.recipes) : r.group_id = Some(group_id)}}
    IN  IF vs = {} THEN None ELSE Some(SetMax(vs))

\* NextVersion with the WHERE group_id = ? left out of the SELECT.
NextVersionOfAnyGroup(d, group_id) ==
    SetMax({0} \cup {row.version : row \in Range(d.recipes)}) + 1

\* NextVersion without the + 1.
NextVersionSameAsMax(d, group_id) ==
    SetMax({1} \cup {row.version : row \in {r \in Range(d.recipes) : r.group_id = Some(group_id)}})

\* max_version = cur.fetchone()[0] or 0; version = max_version + 1
NextVersion(d, group_id) ==
    LET m == SelectMaxVersion(d, group_id)
        max_version == IF m = None \/ Val(m) = 0 THEN 0 ELSE Val(m)
    IN  max_version + 1

\* SELECT id FROM <ingredients or tags> WHERE name = ?, then fetchone(): the
\* first matching row of the table scan, or None.
SelectIdByName(d, table, name) ==
    LET hits == {i \in 1..Len(d[table]) : d[table][i].name = name}
    IN  IF hits = {} THEN None
        ELSE Some(d[table][CHOOSE i \in hits : \A j \in hits : i <= j].id)

\* get_or_create_ingredient without the SELECT: every call inserts.
AlwaysCreateIngredient(d, ingredient) ==
    [db |-> InsertRow(d, "ingredients",
                [id |-> NextRowId(d, "ingredients"), name |-> ingredient.name,
                 category |-> ingredient.category]),
     id |-> NextRowId(d, "ingredients")]

\* get_or_create_ingredient storing the category it is given in the row it
\* found.
GetOrCreateIngredientUpdating(d, ingredient) ==
    LET row == SelectIdByName(d, "ingredients", ingredient.name)
    IN  IF row # None
        THEN [db |-> [d EXCEPT !.ingredients =
                        [i \in 1..Len(@) |->
                            IF @[i].id = Val(row)
                            THEN [@[i] EXCEPT !.category = ingredient.category]
                            ELSE @[i]]],
              id |-> Val(row)]
        ELSE [db |-> InsertRow(d, "ingredients",
                        [id |-> NextRowId(d, "ingredients"), name |-> ingredient.name,
                         category |-> ingredient.category]),
              id |-> NextRowId(d, "ingredients")]

\* The ingredients table declared with name TEXT NOT NULL UNIQUE: the INSERT of
\* a name that has a row raises and adds nothing.
InsertIngredientUniqueName(d, ingredient) ==
    IF SelectIdByName(d, "ingredients", ingredient.name) # None THEN [db |-> d, id |-> 0]
    ELSE [db |-> InsertRow(d, "ingredients",
                    [id |-> NextRowId(d, "ingredients"), name |-> ingredient.name,
                     category |-> ingredient.category]),
          id |-> NextRowId(d, "ingredients")]

\* INSERT INTO ingredients (name, category) VALUES (?, ?) and cur.lastrowid.
\* The table has id as its only key: name is NOT NULL and nothing more.
InsertIngredient(d, ingredient) ==
    [db |-> InsertRow(d, "ingredients",
                [id |-> NextRowId(d, "ingredients"), name |-> ingredient.name,
                 category |-> ingredient.category]),
     id |-> NextRowId(d, "ingredients")]

\* get_or_create_ingredient: the id of the row with that name, inserting the
\* row (name, category) when there is none.
GetOrCreateIngredient(d, ingredient) ==
    LET row == SelectIdByName(d, "ingredients", ingredient.name)
    IN  IF row # None THEN [db |-> d, id |-> Val(row)]
        ELSE InsertIngredient(d, ingredient)

\* get_or_create_tag looking up and inserting the name of the nested child
\* when the tag has one.
GetOrCreateTagByChild(d, tag) ==
    LET name == IF tag.children # None THEN Val(tag.children).name ELSE tag.name
        row == SelectIdByName(d, "tags", name)
    IN  IF row # None THEN [db |-> d, id |-> Val(row)]
        ELSE [db |-> InsertRow(d, "tags", [id |-> NextRowId(d, "tags"), name |-> name]),
              id |-> NextRowId(d, "tags")]

\* INSERT INTO tags (name) VALUES (?) and cur.lastrowid.
InsertTag(d, tag) ==
    [db |-> InsertRow(d, "tags", [id |-> NextRowId(d, "tags"), name |-> tag.name]),
     id |-> NextRowId(d, "tags")]

\* get_or_create_tag: the same by tag.name; tag.children is not read.
GetOrCreateTag(d, tag) ==
    LET row == SelectIdByName(d, "tags", tag.name)
    IN  IF row # None THEN [db |-> d, id |-> Val(row)]
        ELSE InsertTag(d, tag)

\* INSERT INTO instructions (recipe_id, step_number, description) VALUES (?, ?, ?)
InsertInstructionRow(d, recipe_id, instr) ==
    InsertRow(d, "instructions",
        [id |-> NextRowId(d, "instructions"), recipe_id |-> recipe_id,
         step_number |-> instr.step_number, description |-> instr.description])

\* The link tables declared without their PRIMARY KEY.
KeyNeverTaken(rows, recipe_id, col, ref_id) == FALSE

\* PRIMARY KEY (recipe_id, ingredient_id) / PRIMARY KEY (recipe_id, tag_id): the
\* key of the new link row is already in the table.
KeyTaken(rows, recipe_id, col, ref_id) ==
    \E i \in 1..Len(rows) : rows[i].recipe_id = recipe_id /\ rows[i][col] = ref_id

\* The statement loops of insert_recipe.  Each returns the database as the
\* statements left it, the exception that ended the loop ("none" when it ran
\* to its end) and the index of the list entry that raised it.
\* An entry that is None raises AttributeError at its first attribute access;
\* a link row whose key is taken raises sqlite3.IntegrityError, which undoes
\* that one statement and nothing before it.
RECURSIVE InsertInstructions(_, _, _, _)
InsertInstructions(d, recipe_id, instructions, i) ==
    IF i > Len(instructions) THEN [db |-> d, error |-> "none", at |-> 0]
    ELSE IF instructions[i] = None THEN [db |-> d, error |-> "AttributeError", at |-> i]
    ELSE InsertInstructions(InsertInstructionRow(d, recipe_id, Val(instructions[i])),
                            recipe_id, instructions, i + 1)

\* INSERT INTO recipe_ingredients (recipe_id, ingredient_id, quantity, unit)
InsertRecipeIngredientRow(d, recipe_id, ingredient_id, ri) ==
    IF KeyTaken(d.recipe_ingredients, recipe_id, "ingredient_id", ingredient_id)
    THEN [db |-> d, error |-> "IntegrityError"]
    ELSE [db |-> [d EXCEPT !.recipe_ingredients =
                    Append(@, [recipe_id |-> recipe_id, ingredient_id |-> ingredient_id,
                               quantity |-> ri.quantity, unit |-> ri.unit])],
          error |-> "none"]

RECURSIVE InsertIngredients(_, _, _, _)
InsertIngredients(d, recipe_id, ingredients, i) ==
    IF i > Len(ingredients) THEN [db |-> d, error |-> "none", at |-> 0]
    ELSE IF ingredients[i] = None THEN [db |-> d, error |-> "AttributeError", at |-> i]
    ELSE LET ri == Val(ingredients[i])
             got == GetOrCreateIngredient(d, ri.ingredient)
             ins == InsertRecipeIngredientRow(got.db, recipe_id, got.id, ri)
         IN  IF ins.error # "none" THEN [db |-> ins.db, error |-> ins.error, at |-> i]
             ELSE InsertIngredients(ins.db, recipe_id, ingredients, i + 1)

\* The INSERT INTO recipe_tags with its two parameters bound in each other's
\* place.
InsertRecipeTagRowSwapped(d, recipe_id, tag_id) ==
    IF KeyTaken(d.recipe_tags, tag_id, "tag_id", recipe_id)
    THEN [db |-> d, error |-> "IntegrityError"]
    ELSE [db |-> [d EXCEPT !.recipe_tags =
                    Append(@, [recipe_id |-> tag_id, tag_id |-> recipe_id])],
          error |-> "none"]

\* INSERT INTO recipe_tags (recipe_id, tag_id) VALUES (?, ?)
InsertRecipeTagRow(d, recipe_id, tag_id) ==
    IF KeyTaken(d.recipe_tags, recipe_id, "tag_id", tag_id)
    THEN [db |-> d, error |-> "IntegrityError"]
    ELSE [db |-> [d EXCEPT !.recipe_tags =
                    Append(@, [recipe_id |-> recipe_id, tag_id |-> tag_id])],
          error |-> "none"]

RECURSIVE InsertTags(_, _, _, _)
InsertTags(d, recipe_id, tags, i) ==
    IF i > Len(tags) THEN [db |-> d, error |-> "none", at |-> 0]
    ELSE IF tags[i] = None THEN [db |-> d, error |-> "AttributeError", at |-> i]
    ELSE LET got == GetOrCreateTag(d, Val(tags[i]))
             ins == InsertRecipeTagRow(got.db, recipe_id, got.id)
         IN  IF ins.error # "none" THEN [db |-> ins.db, error |-> ins.error, at |-> i]
             ELSE InsertTags(ins.db, recipe_id, tags, i + 1)

\* insert_recipe, lines 163-183: the recipes row.  With group_id None the row
\* is inserted with a NULL group_id and version 1, then updated to carry its
\* own id as group_id; otherwise it is inserted under the given group_id with
\* the next version of that group.
InsertRevisionRow(d, recipe, group_id) ==
    LET recipe_id == NextRowId(d, "recipes")
    IN  IF group_id = None
        THEN [db |-> UpdateGroupId(InsertRecipesRow(d, None, 1, recipe), recipe_id, recipe_id),
              recipe_id |-> recipe_id, group_id |-> recipe_id, version |-> 1]
        ELSE [db |-> InsertRecipesRow(d, group_id, NextVersion(d, Val(group_id)), recipe),
              recipe_id |-> recipe_id, group_id |-> Val(group_id),
              version |-> NextVersion(d, Val(group_id))]

\* insert_recipe up to its conn.commit(): the recipes row, then the three
\* loops in the order instructions, ingredients, tags, stopping at the first
\* exception.  step names the loop that raised.
RunInsertRecipe(d, recipe, group_id) ==
    LET head == InsertRevisionRow(d, recipe, group_id)
        a == InsertInstructions(head.db, head.recipe_id, recipe.instructions, 1)
        b == InsertIngredients(a.db, head.recipe_id, recipe.ingredients, 1)
        c == InsertTags(b.db, head.recipe_id, recipe.tags, 1)
        out(r, step) == [db |-> r.db, error |-> r.error, step |-> step, at |-> r.at,
                         recipe_id |-> head.recipe_id, group_id |-> head.group_id,
                         version |-> head.version]
    IN  IF a.error # "none" THEN out(a, "instructions")
        ELSE IF b.error # "none" THEN out(b, "ingredients")
        ELSE IF c.error # "none" THEN out(c, "tags")
        ELSE out(c, "commit")

\* ------------------------------------------------------------- the state
\* call: the last call made on the connection, with its arguments and how it
\* ended; ret is the value it returned (None when it raised or returns
\* nothing), recipe_id / group / version are insert_recipe's locals.
\* by_ret / by_group: the position of an insert_recipe call in a chain of
\* consecutive calls that starts with group_id = None and goes on with
\* group_id = the value the previous call returned (by_ret; a call that raised
\* returned nothing) or with group_id = the group the previous call wrote to
\* (by_group); first is the id the chain's first call assigned, n = 0 when the
\* call is in no chain.
\* failed: the ids of the recipes rows written by insert_recipe calls that
\* raised, as long as those rows are in db.
NoChain == [n |-> 0, first |-> 0]

NoCall(op) ==
    [op |-> op, arg |-> None, group_id |-> None, error |-> "none", step |-> "", at |-> 0,
     ret |-> None, recipe_id |-> 0, group |-> 0, version |-> 0,
     by_ret |-> NoChain, by_group |-> NoChain]

\* The chain position of a call with argument group_id that writes row
\* recipe_id, after the call prev whose chain position was link and whose
\* chaining value was passed (an optional).
Chain(prev, link, passed, group_id, recipe_id) ==
    IF group_id = None THEN [n |-> 1, first |-> recipe_id]
    ELSE IF prev.op = "insert_recipe" /\ link.n > 0 /\ group_id = passed
         THEN [n |-> link.n + 1, first |-> link.first]
         ELSE NoChain

\* Two processes that run the helpers side by side, each on its own
\* sqlite3.connect to the database file.
Writers == {1, 2}

\* A writer that is in no call and has no transaction open.
Idle == [pc |-> "idle", table |-> "", arg |-> None]

\* sqlite3.connect on a new file, then create_tables.
Init ==
    /\ db = EmptyDb
    /\ committed = EmptyDb
    /\ call = NoCall("connect")
    /\ failed = {}
    /\ writers = [w \in Writers |-> Idle]

\* insert_recipe(conn, recipe, group_id).  The statements run inside the
\* transaction sqlite3 opens at the first INSERT; conn.commit() is reached
\* only when no statement raised, and nothing rolls back when one did.
InsertRecipe(recipe, group_id) ==
    \E r \in {RunInsertRecipe(db, recipe, group_id)} :
        /\ db' = r.db
        /\ committed' = IF r.error = "none" THEN r.db ELSE committed
        /\ failed' = IF r.error = "none" THEN failed ELSE failed \cup {r.recipe_id}
        /\ call' = [op |-> "insert_recipe", arg |-> Some(recipe), group_id |-> group_id,
                    error |-> r.error, step |-> r.step, at |-> r.at,
                    ret |-> IF r.error = "none" THEN Some(r.recipe_id) ELSE None,
                    recipe_id |-> r.recipe_id, group |-> r.group_id, version |-> r.version,
                    by_ret |-> Chain(call, call.by_ret, call.ret, group_id, r.recipe_id),
                    by_group |-> Chain(call, call.by_group, Some(call.group), group_id,
                                       r.recipe_id)]
        /\ UNCHANGED writers

\* get_or_create_ingredient(conn, ingredient) called on its own: no commit.
CallGetOrCreateIngredient(ingredient) ==
    \E r \in {GetOrCreateIngredient(db, ingredient)} :
        /\ db' = r.db
        /\ call' = [NoCall("get_or_create_ingredient") EXCEPT
                        !.arg = Some(ingredient), !.ret = Some(r.id)]
        /\ UNCHANGED <<committed, failed, writers>>

\* get_or_create_tag(conn, tag) called on its own: no commit.
CallGetOrCreateTag(tag) ==
    \E r \in {GetOrCreateTag(db, tag)} :
        /\ db' = r.db
        /\ call' = [NoCall("get_or_create_tag") EXCEPT !.arg = Some(tag), !.ret = Some(r.id)]
        /\ UNCHANGED <<committed, failed, writers>>

\* A database file that holds no table yet.
NewFile ==
    [sqlite_sequence |-> [recipes |-> 0, ingredients |-> 0, instructions |-> 0, tags |-> 0]]

\* The tables create_tables names, in the order of its statements.
Tables ==
    <<"recipes", "ingredients", "recipe_ingredients", "instructions", "tags", "recipe_tags">>

\* CREATE TABLE without IF NOT EXISTS, after dropping the table: it is empty
\* afterwards.
CreateTableAnew(d, table) ==
    [t \in DOMAIN d \cup {table} |-> IF t = table THEN <<>> ELSE d[t]]

\* CREATE TABLE IF NOT EXISTS <table>: a table that exists is left as it is,
\* with its rows; one that does not is created empty.
CreateTableIfNotExists(d, table) ==
    IF table \in DOMAIN d THEN d
    ELSE [t \in DOMAIN d \cup {table} |-> IF t = table THEN <<>> ELSE d[t]]

\* The six statements of create_tables from the i-th on.
RECURSIVE CreateAll(_, _)
CreateAll(d, i) ==
    IF i > Len(Tables) THEN d
    ELSE CreateAll(CreateTableIfNotExists(d, Tables[i]), i + 1)

\* create_tables(conn) on the open connection: the six CREATE TABLE IF NOT
\* EXISTS statements, and leaving "with conn:" commits the connection's
\* pending transaction.
CreateTables ==
    /\ db' = CreateAll(db, 1)
    /\ committed' = db'
    /\ call' = NoCall("create_tables")
    /\ UNCHANGED <<failed, writers>>

\* conn.close(), then sqlite3.connect and create_tables again (a restart of
\* the script): the pending transaction is lost.
Reconnect ==
    /\ db' = committed
    /\ failed' = {id \in failed : \E row \in Range(committed.recipes) : row.id = id}
    /\ call' = NoCall("connect")
    /\ UNCHANGED <<committed, writers>>

\* The rows of all six tables.
Rows(d) ==
    Len(d.recipes) + Len(d.ingredients) + Len(d.recipe_ingredients)
    + Len(d.instructions) + Len(d.tags) + Len(d.recipe_tags)

\* The group_id arguments explored: None, the id of every recipes row, and the
\* next two ids, which no row has yet.
GroupIds(d) == {None} \cup {Some(g) : g \in 1..(NextRowId(d, "recipes") + 1)}

Next ==
    \/ \E n \in 0..(3 * MaxLen) :
          /\ Rows(db) + 1 + n <= MaxRows
          /\ \E recipe \in RecipesOfSize[n], group_id \in GroupIds(db) :
                InsertRecipe(recipe, group_id)
    \/ \E ingredient \in Ingredient :
          Rows(db) < MaxRows /\ CallGetOrCreateIngredient(ingredient)
    \/ \E tag \in Tag :
          Rows(db) < MaxRows /\ CallGetOrCreateTag(tag)
    \/ CreateTables
    \/ Reconnect

Spec == Init /\ [][Next]_vars

\* ------------------------------------------------------------ the claims
RecipeRows(d, id) == {row \in Range(d.recipes) : row.id = id}

IsInsert(c) == c.op = "insert_recipe"

Returned(c) == c.error = "none"

\* The recipes row the last insert_recipe call wrote has this group and version.
Wrote(group, version) ==
    /\ RecipeRows(db, call.recipe_id) # {}
    /\ \A row \in RecipeRows(db, call.recipe_id) :
          row.version = version /\ row.group_id = Some(group)

HasRowsOf(d, id) ==
    \/ \E row \in Range(d.recipes) : row.id = id
    \/ \E row \in Range(d.instructions) : row.recipe_id = id
    \/ \E row \in Range(d.recipe_ingredients) : row.recipe_id = id
    \/ \E row \in Range(d.recipe_tags) : row.recipe_id = id

\* C2: a revision whose insert_recipe call raised has no row in the database
\* file, neither right after the call nor after any later call.
C2_FailedWriteLeavesNothing ==
    \A id \in failed : ~HasRowsOf(committed, id)

\* At most one row of the table has each name.
UniqueNames(rows) ==
    \A i, j \in 1..Len(rows) : rows[i].name = rows[j].name => i = j

IdsOfName(rows, name) == {row.id : row \in {r \in Range(rows) : r.name = name}}

\* A step that is a get_or_create call on the table: returns the id of the one
\* row with the name; when the name had a row before, that is the row's id and
\* the table is as it was.
ResolvesByName(op, table) ==
    call'.op = op =>
        LET name == Val(call'.arg).name
        IN  /\ IdsOfName(db'[table], name) = {Val(call'.ret)}
            /\ IdsOfName(db[table], name) # {} =>
                  /\ IdsOfName(db[table], name) = {Val(call'.ret)}
                  /\ db' = db
            /\ (call.op = op /\ Val(call.arg).name = name) => call'.ret = call.ret

\* C3: the ingredients table and the tags table hold at most one row per name
\* after any sequence of calls, and get_or_create_ingredient / get_or_create_tag
\* return the id of the existing row of a name without inserting.
C3_OneRowPerName ==
    /\ [](UniqueNames(db.ingredients) /\ UniqueNames(db.tags))
    /\ [][/\ ResolvesByName("get_or_create_ingredient", "ingredients")
          /\ ResolvesByName("get_or_create_tag", "tags")]_vars

\* get_or_create_ingredient has just returned the id of a row that an earlier
\* call had created with another category.
C3_Witness ==
    /\ call.op = "get_or_create_ingredient"
    /\ \E row \in Range(db.ingredients) :
          /\ row.id = Val(call.ret)
          /\ row.name = Val(call.arg).name
          /\ row.category # Val(call.arg).category
    /\ Len(db.recipe_ingredients) > 0

\* C4 as stated: insert_recipe returns three values, the recipe identity, the
\* group identifier and the version; with group_id absent the group identifier
\* returned is the recipe identity and the version is 1.
C4_ReturnsIdGroupVersion ==
    IsInsert(call) /\ Returned(call) =>
        /\ Len(call.ret) = 3
        /\ call.ret[1] = call.recipe_id
        /\ call.ret[2] = call.group
        /\ call.ret[3] = call.version
        /\ call.group_id = None => call.ret[2] = call.ret[1] /\ call.ret[3] = 1

\* The largest version stored in the group, or 0.
MaxVersionOrZero(d, g) ==
    SetMax({0} \cup {row.version : row \in {r \in Range(d.recipes) : r.group_id = Some(g)}})

\* C4 amended: insert_recipe returns one value, the id of the recipes row it
\* inserted.  With group_id = g that row has group_id g and version (largest
\* version stored in group g before the call, or 0) + 1; with group_id absent
\* the row's group_id is the returned id and its version is 1.
C4_ReturnsRecipeId ==
    [][IsInsert(call') /\ Returned(call') =>
        /\ Len(call'.ret) = 1
        /\ RecipeRows(db, Val(call'.ret)) = {}
        /\ \E row \in RecipeRows(db', Val(call'.ret)) :
              /\ RecipeRows(db', Val(call'.ret)) = {row}
              /\ IF call'.group_id = None
                 THEN row.group_id = call'.ret /\ row.version = 1
                 ELSE /\ row.group_id = call'.group_id
                      /\ row.version = MaxVersionOrZero(db, Val(call'.group_id)) + 1]_vars

\* A call with a group_id has returned the id of a revision with version 2.
C4_Witness ==
    /\ IsInsert(call) /\ Returned(call) /\ call.group_id # None
    /\ \E row \in RecipeRows(db, Val(call.ret)) : row.version = 2

\* C5: every stored revision's group_id is the id of a stored revision that
\* has version 1 and is its own group (the first revision of the group).
C5_GroupIsFirstRevision ==
    \A row \in Range(committed.recipes) :
        \E first \in Range(committed.recipes) :
            /\ row.group_id = Some(first.id)
            /\ first.version = 1
            /\ first.group_id = Some(first.id)

GroupRows(d, g) == {i \in 1..Len(d.recipes) : d.recipes[i].group_id = g}

\* C6: the versions of the stored revisions of one group are pairwise distinct
\* and are exactly 1..n, increasing in insertion order.
C6_VersionsOneToN ==
    \A g \in {row.group_id : row \in Range(committed.recipes)} :
        LET rows == GroupRows(committed, g)
        IN  /\ \A i, j \in rows : i < j =>
                  committed.recipes[i].version < committed.recipes[j].version
            /\ {committed.recipes[i].version : i \in rows} = 1..Cardinality(rows)

\* C7: no recipes row, pending or committed, has a NULL group_id, and the row
\* written by a call with group_id absent has version 1 and its own id as
\* group_id, whether or not the call went on to raise.
C7_SelfLinked ==
    /\ \A row \in Range(db.recipes) \cup Range(committed.recipes) : row.group_id # None
    /\ IsInsert(call) /\ call.group_id = None =>
          /\ RecipeRows(db, call.recipe_id) # {}
          /\ \A row \in RecipeRows(db, call.recipe_id) :
                row.version = 1 /\ row.group_id = Some(row.id)

\* A call with group_id absent has returned and its row is committed, after an
\* earlier revision.
C7_Witness ==
    /\ IsInsert(call) /\ Returned(call) /\ call.group_id = None
    /\ call.recipe_id > 1
    /\ \E row \in Range(committed.recipes) :
          row.id = call.recipe_id /\ row.group_id = Some(call.recipe_id)

\* No two rows of the link table have the same (recipe_id, col).
UniqueKeys(rows, col) ==
    \A i, j \in 1..Len(rows) :
        rows[i].recipe_id = rows[j].recipe_id /\ rows[i][col] = rows[j][col] => i = j

IngredientName(entry) == Val(entry).ingredient.name

TagName(entry) == Val(entry).name

\* The first entry of the list that is None or names what an earlier entry
\* names; 0 when there is none.
FirstBad(list, NameOf(_)) ==
    LET bad == {j \in 1..Len(list) :
                  \/ list[j] = None
                  \/ \E i \in 1..(j - 1) : list[i] # None /\ NameOf(list[i]) = NameOf(list[j])}
    IN  IF bad = {} THEN 0 ELSE CHOOSE j \in bad : \A k \in bad : j <= k

RaisedAt(error, step, at) ==
    call.error = error /\ call.step = step /\ call.at = at

\* C8: no two recipe_ingredients rows share (recipe_id, ingredient_id) and no
\* two recipe_tags rows share (recipe_id, tag_id); an insert_recipe call whose
\* ingredient list or tag list repeats a name raises, and when nothing raised
\* before the repeated entry it raises IntegrityError at that entry's link
\* insertion.
C8_NoDoubleLink ==
    /\ UniqueKeys(db.recipe_ingredients, "ingredient_id")
    /\ UniqueKeys(db.recipe_tags, "tag_id")
    /\ IsInsert(call) =>
          LET recipe == Val(call.arg)
              ok == \A i \in 1..Len(recipe.instructions) : recipe.instructions[i] # None
              bi == FirstBad(recipe.ingredients, IngredientName)
              bt == FirstBad(recipe.tags, TagName)
          IN  /\ ok /\ bi > 0 /\ recipe.ingredients[bi] # None =>
                    RaisedAt("IntegrityError", "ingredients", bi)
              /\ ok /\ bi = 0 /\ bt > 0 /\ recipe.tags[bt] # None =>
                    RaisedAt("IntegrityError", "tags", bt)
              /\ bi > 0 \/ bt > 0 => ~Returned(call)

\* The second of two entries naming the same ingredient has raised
\* IntegrityError, in a revision written after another one.
C8_Witness ==
    /\ IsInsert(call) /\ RaisedAt("IntegrityError", "ingredients", 2)
    /\ call.recipe_id > 1
    /\ Len(db.recipe_ingredients) > 0

\* C9: an insert_recipe call whose group_id is the group_id of no stored
\* revision raises and adds no recipes row.
C9_UnknownGroupRejected ==
    [][IsInsert(call') /\ call'.group_id # None /\ GroupRows(db, call'.group_id) = {} =>
          ~Returned(call') /\ db'.recipes = db.recipes]_vars

\* ---------------------------------------------------------- the read path
\* The sequence with x put before the first element whose step_number is
\* larger: an insertion that keeps equal step numbers in their order.
RECURSIVE InsertByStep(_, _)
InsertByStep(sorted, x) ==
    IF sorted = <<>> THEN <<x>>
    ELSE IF sorted[Len(sorted)].step_number <= x.step_number THEN Append(sorted, x)
    ELSE Append(InsertByStep(SubSeq(sorted, 1, Len(sorted) - 1), x), sorted[Len(sorted)])

\* ORDER BY step_number, rows of equal step_number in the order given.
RECURSIVE OrderByStep(_)
OrderByStep(rows) ==
    IF rows = <<>> THEN <<>>
    ELSE InsertByStep(OrderByStep(SubSeq(rows, 1, Len(rows) - 1)), rows[Len(rows)])

RowOfId(rows, id) == CHOOSE row \in Range(rows) : row.id = id

OfRecipe(rows, id) == SelectSeq(rows, LAMBDA row : row.recipe_id = id)

\* The recipe graph read back for a recipe identity: the scalar row, its
\* instructions ordered by step_number, its recipe_ingredients rows joined to
\* ingredients, its recipe_tags rows joined to tags.
Reconstruct(d, id) ==
    LET row == RowOfId(d.recipes, id)
        ins == OrderByStep(OfRecipe(d.instructions, id))
        ing == OfRecipe(d.recipe_ingredients, id)
        tg == OfRecipe(d.recipe_tags, id)
    IN  [title |-> row.title, description |-> row.description, comments |-> row.comments,
         prep_time |-> row.prep_time, cook_time |-> row.cook_time,
         servings |-> row.servings,
         ingredients |->
            [i \in 1..Len(ing) |->
                LET ingredient == RowOfId(d.ingredients, ing[i].ingredient_id)
                IN  Some([ingredient |-> [name |-> ingredient.name,
                                          category |-> ingredient.category],
                          quantity |-> ing[i].quantity, unit |-> ing[i].unit])],
         instructions |->
            [i \in 1..Len(ins) |->
                Some([step_number |-> ins[i].step_number,
                      description |-> ins[i].description])],
         tags |->
            [i \in 1..Len(tg) |->
                Some([name |-> RowOfId(d.tags, tg[i].tag_id).name, children |-> None])]]

\* C10 as stated: the graph read back for the identity insert_recipe returned
\* equals the graph written, in every field.
C10_RoundTrip ==
    IsInsert(call) /\ Returned(call) => Reconstruct(db, Val(call.ret)) = Val(call.arg)

\* The category the ingredients table holds for the name once the graph is
\* written to d: that of the row the name had, else the graph's own.
CategoryKept(d, ingredient) ==
    LET had == {row \in Range(d.ingredients) : row.name = ingredient.name}
    IN  IF had = {} THEN ingredient.category ELSE (CHOOSE row \in had : TRUE).category

\* What of a graph the tables keep when it is written to d: every scalar
\* field, the instructions (read back by step_number), each ingredient's name,
\* quantity and unit with the category first stored for the name, and each
\* tag's name without its nested child.
Kept(d, recipe) ==
    LET ins == OrderByStep([i \in 1..Len(recipe.instructions) |-> Val(recipe.instructions[i])])
        KeptIngredient(ri) ==
            [ingredient |-> [name |-> ri.ingredient.name,
                             category |-> CategoryKept(d, ri.ingredient)],
             quantity |-> ri.quantity, unit |-> ri.unit]
    IN  [recipe EXCEPT
            !.instructions = [i \in 1..Len(ins) |-> Some(ins[i])],
            !.ingredients = [i \in 1..Len(@) |-> Some(KeptIngredient(Val(@[i])))],
            !.tags = [i \in 1..Len(@) |-> Some([name |-> Val(@[i]).name, children |-> None])]]

\* C10 amended: the graph read back for the identity insert_recipe returned
\* equals the graph written in title, description, comments, prep_time,
\* cook_time, servings, each instruction's step_number and description (in
\* step_number order), each ingredient's name, quantity and unit, and each
\* tag's name; an ingredient's category is the one first stored for its name
\* and a tag's nested child is not stored.
C10_RoundTripOfStoredFields ==
    [][IsInsert(call') /\ Returned(call') =>
          Reconstruct(db', Val(call'.ret)) = Kept(db, Val(call'.arg))]_vars

\* A second revision has been written whose graph is not read back as given.
C10_Witness ==
    /\ IsInsert(call) /\ Returned(call)
    /\ call.recipe_id > 1
    /\ Entries(Val(call.arg)) > 0
    /\ Reconstruct(db, Val(call.ret)) # Val(call.arg)

\* ------------------------------------------------------- deleting a revision
\* DELETE FROM recipes WHERE id = ? on the tables create_tables declares.  The
\* ON DELETE CASCADE clauses of recipe_ingredients, instructions and
\* recipe_tags act only on a connection whose foreign_keys pragma is on;
\* otherwise the statement removes the recipes row alone.
DeleteFromRecipes(d, id, foreign_keys) ==
    LET Others(rows, col) == SelectSeq(rows, LAMBDA row : row[col] # id)
    IN  IF foreign_keys
        THEN [d EXCEPT !.recipes = Others(@, "id"),
                       !.instructions = Others(@, "recipe_id"),
                       !.recipe_ingredients = Others(@, "recipe_id"),
                       !.recipe_tags = Others(@, "recipe_id")]
        ELSE [d EXCEPT !.recipes = Others(@, "id")]

\* The foreign_keys pragma of the connection sqlite3.connect returns.  The
\* program never issues PRAGMA foreign_keys, so it is the default of the
\* SQLite library: off, unless the library was built with
\* SQLITE_DEFAULT_FOREIGN_KEYS=1.
ForeignKeys == BOOLEAN

\* A caller deletes revision id on the connection and commits.
DeleteRecipe(id, foreign_keys) ==
    /\ db' = DeleteFromRecipes(db, id, foreign_keys)
    /\ committed' = db'
    /\ failed' = failed \ {id}
    /\ call' = [NoCall("delete_recipe") EXCEPT !.recipe_id = id]
    /\ UNCHANGED writers

\* Revisions written and deleted by one writer.  AUTOINCREMENT never reuses an
\* id: writes stop once MaxRevisions ids have been given out.
NextDelete ==
    \/ \E n \in 0..(3 * MaxLen) :
          /\ Rows(db) + 1 + n <= MaxRows
          /\ NextRowId(db, "recipes") <= MaxRevisions
          /\ \E recipe \in RecipesOfSize[n], group_id \in GroupIds(db) :
                InsertRecipe(recipe, group_id)
    \/ \E row \in Range(db.recipes), foreign_keys \in ForeignKeys :
          DeleteRecipe(row.id, foreign_keys)

SpecDelete == Init /\ [][NextDelete]_vars

\* The rows of the table that do not belong to revision id.
RowsOfOthers(rows, id) == SelectSeq(rows, LAMBDA row : row.recipe_id # id)

\* C11: deleting the recipes row of a revision removes every instructions,
\* recipe_ingredients and recipe_tags row of that revision and leaves in place
\* every ingredients row, every tags row and every row of another revision.
C11_DeleteCascades ==
    [][call'.op = "delete_recipe" =>
          LET id == call'.recipe_id
          IN  /\ ~HasRowsOf(db', id)
              /\ db'.ingredients = db.ingredients
              /\ db'.tags = db.tags
              /\ db'.recipes = SelectSeq(db.recipes, LAMBDA row : row.id # id)
              /\ db'.instructions = RowsOfOthers(db.instructions, id)
              /\ db'.recipe_ingredients = RowsOfOthers(db.recipe_ingredients, id)
              /\ db'.recipe_tags = RowsOfOthers(db.recipe_tags, id)]_vars

\* ------------------------------------------------------------ the schema
\* C12: create_tables on a new file creates the six tables, empty; called on
\* a connection whose tables exist, with any rows in them, it leaves every
\* table and every row the connection sees as it was (the file then holds
\* exactly those rows), and a second call right after it would change nothing.
C12_CreateTablesIdempotent ==
    /\ [](/\ CreateAll(NewFile, 1) = EmptyDb
          /\ call.op = "create_tables" => CreateAll(db, 1) = db /\ committed = db)
    /\ [][call'.op = "create_tables" => db' = db /\ committed' = db]_vars

\* create_tables has been called on tables that hold revisions with their
\* detail rows.
C12_Witness ==
    /\ call.op = "create_tables"
    /\ Len(db.recipes) > 1
    /\ Len(db.instructions) + Len(db.recipe_ingredients) + Len(db.recipe_tags) > 0

\* ------------------------------------------------------------ nested tags
\* The rows of the table that belong to revision id.
RowsOfRevision(rows, id) == SelectSeq(rows, LAMBDA row : row.recipe_id = id)

NamesIn(rows) == {row.name : row \in Range(rows)}

\* C13 as stated: after an insert_recipe call that returned, every listed tag
\* has a tags row, the nested child of a listed tag has a tags row too, and
\* the revision has one recipe_tags row per listed tag.
C13_ChildTagStored ==
    IsInsert(call) /\ Returned(call) =>
        LET tags == Val(call.arg).tags
        IN  /\ \A i \in 1..Len(tags) :
                  /\ Val(tags[i]).name \in NamesIn(db.tags)
                  /\ Val(tags[i]).children # None =>
                        Val(Val(tags[i]).children).name \in NamesIn(db.tags)
            /\ Len(RowsOfRevision(db.recipe_tags, call.recipe_id)) = Len(tags)

\* C13 amended: an insert_recipe call that returned has added tags rows for
\* the names of the listed tags that had none and for no other name (a nested
\* child is not read), and the revision's recipe_tags rows link, in list
\* order, the rows of the listed tags' names.
C13_OnlyListedTagsStored ==
    [][IsInsert(call') /\ Returned(call') =>
          LET tags == Val(call'.arg).tags
              links == RowsOfRevision(db'.recipe_tags, call'.recipe_id)
          IN  /\ NamesIn(db'.tags) =
                    NamesIn(db.tags) \cup {Val(tags[i]).name : i \in 1..Len(tags)}
              /\ Len(links) = Len(tags)
              /\ \A i \in 1..Len(tags) :
                    IdsOfName(db'.tags, Val(tags[i]).name) = {links[i].tag_id}]_vars

\* A revision listing a tag with a nested child has been written, and the
\* child's name has no tags row.
C13_Witness ==
    /\ IsInsert(call) /\ Returned(call)
    /\ \E i \in 1..Len(Val(call.arg).tags) :
          LET tag == Val(Val(call.arg).tags[i])
          IN  /\ tag.children # None
              /\ tag.name \in NamesIn(db.tags)
              /\ Val(tag.children).name \notin NamesIn(db.tags)
              /\ Len(RowsOfRevision(db.recipe_tags, call.recipe_id)) > 0

\* ------------------------------------------------------- rows that stay
\* Every row of the table before is a row of the table after, at its place.
Prefix(before, after) ==
    Len(before) <= Len(after) /\ SubSeq(after, 1, Len(before)) = before

\* C14: a get_or_create_ingredient, get_or_create_tag or insert_recipe call,
\* returning or raising, leaves every ingredients row and every tags row that
\* was there with its id, name and category, whatever category the call
\* supplies for the name; it only adds rows.
C14_FirstWriteWins ==
    [][call'.op \in {"insert_recipe", "get_or_create_ingredient", "get_or_create_tag"} =>
          /\ Prefix(db.ingredients, db'.ingredients)
          /\ Prefix(db.tags, db'.tags)]_vars

\* insert_recipe has linked an ingredient whose row was stored earlier with
\* another category than the one the recipe supplies, and the row has kept it.
C14_Witness ==
    /\ IsInsert(call)
    /\ \E i \in 1..Len(Val(call.arg).ingredients), row \in Range(db.ingredients) :
          /\ Val(call.arg).ingredients[i] # None
          /\ row.name = Val(Val(call.arg).ingredients[i]).ingredient.name
          /\ row.category # Val(Val(call.arg).ingredients[i]).ingredient.category
          /\ \E link \in Range(db.recipe_ingredients) :
                link.recipe_id = call.recipe_id /\ link.ingredient_id = row.id

\* --------------------------------------------------------- absent entries
\* Some entry of the ingredients, instructions or tags list is None.
HasNone(recipe) ==
    \/ \E i \in 1..Len(recipe.ingredients) : recipe.ingredients[i] = None
    \/ \E i \in 1..Len(recipe.instructions) : recipe.instructions[i] = None
    \/ \E i \in 1..Len(recipe.tags) : recipe.tags[i] = None

\* C15: an insert_recipe call whose recipe has a None entry in one of its
\* lists raises before it has inserted any row: the tables are as they were
\* before the call.
C15_NoneRejectedAtBoundary ==
    [][IsInsert(call') /\ HasNone(Val(call'.arg)) =>
          ~Returned(call') /\ db' = db /\ committed' = committed]_vars

\* ------------------------------------------------------------ append-only
\* The rows the table has gained.
Added(before, after) == {after[i] : i \in (Len(before) + 1)..Len(after)}

\* C16: an insert_recipe call, returning or raising, leaves every recipes,
\* instructions, recipe_ingredients and recipe_tags row that was there, on the
\* connection and in the file, as it was and in place; the rows it adds to
\* the tables of the connection are the recipes row of the revision it
\* creates and detail rows of that revision.
C16_AppendOnly ==
    [][IsInsert(call') =>
          /\ \A i \in 1..Len(Tables) : Prefix(committed[Tables[i]], committed'[Tables[i]])
          /\ Prefix(db.recipes, db'.recipes)
          /\ Prefix(db.instructions, db'.instructions)
          /\ Prefix(db.recipe_ingredients, db'.recipe_ingredients)
          /\ Prefix(db.recipe_tags, db'.recipe_tags)
          /\ Cardinality(Added(db.recipes, db'.recipes)) = 1
          /\ \A row \in Added(db.recipes, db'.recipes) : row.id = call'.recipe_id
          /\ \A row \in Added(db.instructions, db'.instructions)
                       \cup Added(db.recipe_ingredients, db'.recipe_ingredients)
                       \cup Added(db.recipe_tags, db'.recipe_tags) :
                row.recipe_id = call'.recipe_id]_vars

\* An insert_recipe call with group_id absent has raised after writing its
\* recipes row, in a store that held a revision of another group with a
\* detail row.
C16_Witness ==
    /\ IsInsert(call) /\ ~Returned(call) /\ call.group_id = None
    /\ RecipeRows(db, call.recipe_id) # {}
    /\ \E row \in Range(db.recipes) : row.id < call.recipe_id /\ row.group_id # Some(call.recipe_id)
    /\ \E row \in Range(db.instructions) \cup Range(db.recipe_ingredients)
                  \cup Range(db.recipe_tags) : row.recipe_id < call.recipe_id

\* --------------------------------------------------- referential integrity
Ids(rows) == {row.id : row \in Range(rows)}

\* Every detail row of d names a recipes row of d, every recipe_ingredients
\* row an ingredients row and every recipe_tags row a tags row.
References(d) ==
    /\ \A row \in Range(d.instructions) : row.recipe_id \in Ids(d.recipes)
    /\ \A row \in Range(d.recipe_ingredients) :
          row.recipe_id \in Ids(d.recipes) /\ row.ingredient_id \in Ids(d.ingredients)
    /\ \A row \in Range(d.recipe_tags) :
          row.recipe_id \in Ids(d.recipes) /\ row.tag_id \in Ids(d.tags)

\* C18: in every state one writer reaches, calls that raised part-way
\* included, the tables the connection sees and the tables in the file have
\* no detail row whose recipe_id, ingredient_id or tag_id names a missing row.
C18_ReferentialIntegrity ==
    References(db) /\ References(committed)

\* The file holds link rows of a revision whose insert_recipe call raised,
\* and a later revision with a tag link.
C18_Witness ==
    /\ \E id \in failed :
          \E row \in Range(committed.recipe_ingredients) \cup Range(committed.recipe_tags) :
              row.recipe_id = id
    /\ \E row \in Range(committed.recipe_tags) : row.recipe_id > 1

\* ------------------------------------------------------------ two writers
\* get_or_create_ingredient and get_or_create_tag called by two writers, each
\* on its own connection.  Here db is what the connection with the open write
\* transaction sees (the file, when no transaction is open); a connection
\* without a transaction reads the file.  pc "insert": the SELECT has found no
\* row and the INSERT comes next; pc "inserted": the INSERT is done, the
\* helper has returned and the writer's transaction is open.

\* The entities a writer resolves, with their table.
Entities ==
    {[table |-> "ingredients", arg |-> ingredient] : ingredient \in Ingredient}
    \cup {[table |-> "tags", arg |-> tag] : tag \in Tag}

\* Some writer has its write transaction open.
Locked == \E w \in Writers : writers[w].pc = "inserted"

\* Lines 140-144 / 151-155: the SELECT by name and fetchone().  A row found
\* is returned; none found, the writer goes on to its INSERT.
WriterSelect(w, e) ==
    /\ writers[w].pc = "idle"
    /\ writers' = [writers EXCEPT ![w] =
            IF SelectIdByName(committed, e.table, e.arg.name) # None THEN Idle
            ELSE [pc |-> "insert", table |-> e.table, arg |-> Some(e.arg)]]
    /\ UNCHANGED <<db, committed, call, failed>>

\* Lines 145-147 / 156-158: the INSERT, which opens the writer's transaction
\* on the file as it is now, and the return of cur.lastrowid.
WriterInsert(w) ==
    /\ writers[w].pc = "insert"
    /\ ~Locked
    /\ db' = IF writers[w].table = "ingredients"
             THEN InsertIngredient(committed, Val(writers[w].arg)).db
             ELSE InsertTag(committed, Val(writers[w].arg)).db
    /\ writers' = [writers EXCEPT ![w].pc = "inserted"]
    /\ UNCHANGED <<committed, call, failed>>

\* The INSERT while the other writer's transaction stays open for the 5 s the
\* connection waits: sqlite3.OperationalError, database is locked.
WriterBusy(w) ==
    /\ writers[w].pc = "insert"
    /\ Locked
    /\ writers' = [writers EXCEPT ![w] = Idle]
    /\ UNCHANGED <<db, committed, call, failed>>

\* The writer's caller commits (conn.commit(), or "with conn:").
WriterCommit(w) ==
    /\ writers[w].pc = "inserted"
    /\ committed' = db
    /\ writers' = [writers EXCEPT ![w] = Idle]
    /\ UNCHANGED <<db, call, failed>>

\* The writer's caller closes the connection without a commit: the
\* transaction is rolled back.
WriterClose(w) ==
    /\ writers[w].pc = "inserted"
    /\ db' = committed
    /\ writers' = [writers EXCEPT ![w] = Idle]
    /\ UNCHANGED <<committed, call, failed>>

NextWriters ==
    \E w \in Writers :
        \/ \E e \in Entities :
              /\ Len(committed.ingredients) + Len(committed.tags) < MaxRows
              /\ WriterSelect(w, e)
        \/ WriterInsert(w)
        \/ WriterBusy(w)
        \/ WriterCommit(w)
        \/ WriterClose(w)

SpecWriters == Init /\ [][NextWriters]_vars

\* C17: the INSERT of a writer whose SELECT found no row of the name adds a
\* row of that name whether or not the name has got a row since: nothing
\* re-checks and no key of the table rejects it; once committed, the file
\* holds two rows of one name.
C17_InsertAfterStaleLookup ==
    [][\A w \in Writers :
          writers[w].pc = "insert" /\ writers'[w].pc = "inserted" =>
              LET table == writers[w].table
                  name == Val(writers[w].arg).name
              IN  /\ Len(db'[table]) = Len(committed[table]) + 1
                  /\ Prefix(committed[table], db'[table])
                  /\ db'[table][Len(db'[table])].name = name]_vars

\* Both writers looked up the same name before either inserted, and the file
\* now holds two rows of that name.
C17_Witness ==
    \E table \in {"ingredients", "tags"} :
        \E i, j \in 1..Len(committed[table]) :
            i < j /\ committed[table][i].name = committed[table][j].name

====
